---------------------------- MODULE Spec2Model ----------------------------
(***************************************************************************)
(* A model of the match/download core of music-tools:                      *)
(*   - MusicStateManager (music_upgrader/status_manager.py)                *)
(*   - the GUI orchestration: MusicUpgradeGUI (main_window.py), the        *)
(*     context menu handlers (context_menu.py), the manual match window    *)
(*     (manual_match_window.py) and the batch/single workers               *)
(*     (downloader.py)                                                     *)
(*   - the rate-limited API clients (music_upgrade.py,                     *)
(*     music_upgrader_core_async.py, music_upgrader/async_gd_api.py)       *)
(*                                                                         *)
(* The specifications of the module:                                       *)
(*   Spec     the GUI application: main-thread handlers, the Tk `after`    *)
(*            queue and the worker threads, interleaved                    *)
(*   SpecMgr  MusicStateManager alone, driven by callers that honour its   *)
(*            can_* eligibility predicates                                 *)
(*   SpecRL   one rate-limited client, one caller                          *)
(*   SpecRLThreads  one rate-limited client called from several threads    *)
(*   SpecSession  the requests of one GUI session, one client per item     *)
(*                                                                         *)
(* Granularity: a main-thread handler is one step; a worker is one step    *)
(* up to its network await and one step from the await's return to its     *)
(* next await (or its end).                                                *)
(***************************************************************************)
EXTENDS Integers, Sequences, FiniteSets, TLC

(***************************************************************************)
(* Bounds of the model                                                     *)
(***************************************************************************)
NumItems == 2        \* length of the per-item lists; the items of SpecMgr
NumInteractive == 1  \* files a non-empty scan finds in Spec
NumCallers == 2      \* threads that share one rate-limited client
MaxTime == 6         \* the clock stops here
MaxIssued == 4       \* a new client is made only while fewer requests are
                     \* in the trailing window of the session
\* the client's parameters, scaled down from max_requests=60,
\* time_window=300, retries=3
max_requests == 2
time_window == 3
retries == 2
Callers == 1..NumCallers
MaxSingle == 1       \* single-item download threads alive together
MaxRematch == 1      \* single-item re-match threads alive together
NumFiles == 2        \* music files of one command-line upgrade run
MaxWorkers == 2      \* worker threads alive together, of all kinds

Items == 1..NumItems

(***************************************************************************)
(* MusicStatus (status_manager.py:13-21)                                   *)
(***************************************************************************)
MATCH_PENDING == "MATCH_PENDING"
AUTO_MATCHED == "AUTO_MATCHED"
MANUAL_MATCHED == "MANUAL_MATCHED"
MATCH_FAIL == "MATCH_FAIL"
AUTO_DOWNLOAD_COMPLETE == "AUTO_DOWNLOAD_COMPLETE"
MANUAL_DOWNLOAD_COMPLETE == "MANUAL_DOWNLOAD_COMPLETE"
DOWNLOAD_FAIL == "DOWNLOAD_FAIL"
IGNORED == "IGNORED"

MusicStatus ==
  {MATCH_PENDING, AUTO_MATCHED, MANUAL_MATCHED, MATCH_FAIL,
   AUTO_DOWNLOAD_COMPLETE, MANUAL_DOWNLOAD_COMPLETE, DOWNLOAD_FAIL, IGNORED}

None == "None"

(***************************************************************************)
(* Match results.  A candidate returned by the remote search carries an    *)
(* id; the three placeholder dicts the code writes carry "id": None.       *)
(***************************************************************************)
Candidates == {"A", "B"}
IgnoredPh == "ph_ignored"        \* {"name": "已忽略", "artist": "", "id": None}
NotFoundPh == "ph_notfound"      \* {"name": "未找到匹配", ..., "id": None}
FailedPh == "ph_failed"          \* {"name": "匹配失败", ..., "id": None}
MatchValues == Candidates \cup {None, IgnoredPh, NotFoundPh, FailedPh}

\* `m and m.get('id')`
\* a variant of HasId that finds an id in no match
HasId_never(m) == FALSE

HasId(m) == m \in Candidates

VARIABLES
  \* --- MusicUpgradeGUI fields ---
  n,                      \* len(self.music_files)
  scanned,                \* auto_scan_files has run (context_menu_handler exists)
  status,                 \* status_manager.status_list
  backup,                 \* status_manager.ignored_status_backup
  matched_songs,          \* self.matched_songs
  original_matched_songs, \* self.original_matched_songs (first origLen entries)
  origLen,                \* len(self.original_matched_songs)
  is_matching, cancel_matching, is_upgrading, cancel_upgrading,
  \* --- widgets ---
  menuBound,              \* "<Button-3>" is bound on the tree
  matchBtn, upgradeBtn, browseBtn,   \* button is enabled
  menu,                   \* the posted context menu: its item and commands
  mw,                     \* the modal manual match window
  afterQ,                 \* callbacks scheduled with root.after(0, ...)
  \* --- worker threads ---
  mt,                     \* match_files_async
  ut,                     \* upgrade_files_async
  sd,                     \* download_single_async threads
  rm,                     \* _rematch_single_file_async threads
  \* --- history, read by the properties only ---
  ign,                    \* per item: its status and match when it was last
                          \* ignored, and whether a worker has run since
  \* --- a rate-limited API client and its callers ---
  now,                    \* time.time(), in whole time units
  requests,               \* self.requests, the deque of request timestamps
  calls,                  \* per caller: where it is inside _make_request
  issued,                 \* history: the timestamps of the requests sent to
                          \* the service, by any client, not older than
                          \* time_window
  hist,                   \* history, per caller, of its current or last call:
                          \* attempts made, sleeps asked for between them,
                          \* and how the call ended
  \* --- one call of download_lossless_music, one of find_best_match ---
  dl,                     \* the locals of download_lossless_music and the
                          \* history of the tiers it requested
  fb,                     \* the argument and the result of find_best_match
  fp,                     \* one download: the resolved URL, the original
                          \* file, the output directory setting and the
                          \* path the download is written to
  resp,                   \* one request of an API client: the method, the
                          \* payload of the response and the returned value
  uf,                     \* one run of upgrade_music_files(_async): the file
                          \* it is at, the download threads, what their
                          \* callbacks delivered and how each file counted
  \* --- history of the batch threads ---
  progress                \* per batch: the items whose progress update the
                          \* thread inside its loop has scheduled, in order

guiVars ==
  <<n, scanned, status, backup, matched_songs, original_matched_songs, origLen,
    is_matching, cancel_matching, is_upgrading, cancel_upgrading,
    menuBound, matchBtn, upgradeBtn, browseBtn, menu, mw, afterQ,
    mt, ut, sd, rm, ign>>

rlVars == <<now, requests, calls, issued, hist>>

fnVars == <<dl, fb, fp, resp, uf, progress>>

vars == <<guiVars, rlVars, fnVars>>

(***************************************************************************)
(* MusicStateManager                                                       *)
(***************************************************************************)
InRange(i) == 1 <= i /\ i <= n

get_status(i) == IF InRange(i) THEN status[i] ELSE None

\* set_status: the new status_list
set_status(st, i, s) == IF InRange(i) THEN [st EXCEPT ![i] = s] ELSE st

can_ignore(i) ==
  InRange(i) /\ status[i] \notin {AUTO_DOWNLOAD_COMPLETE, MANUAL_DOWNLOAD_COMPLETE}

\* a variant of can_manual_match that, like can_ignore, refuses downloaded items
can_manual_match_as_can_ignore(i) ==
  InRange(i) /\ status[i] \notin {IGNORED, AUTO_DOWNLOAD_COMPLETE,
                                  MANUAL_DOWNLOAD_COMPLETE}

can_manual_match(i) == InRange(i) /\ status[i] # IGNORED

can_auto_match(i) == InRange(i) /\ status[i] \in {MATCH_PENDING, MATCH_FAIL}

\* a variant of can_download that looks at the backup of an Ignored item
can_download_backup(i) ==
  /\ InRange(i)
  /\ \/ status[i] \in {AUTO_MATCHED, MANUAL_MATCHED}
     \/ status[i] = IGNORED /\ backup[i] \in {AUTO_MATCHED, MANUAL_MATCHED}

can_download(i) ==
  InRange(i) /\ status[i] \in {AUTO_MATCHED, MANUAL_MATCHED} /\ status[i] # IGNORED

can_unignore(i) == InRange(i) /\ status[i] = IGNORED

\* ignore_item: <<new status_list, new ignored_status_backup, returned value>>
ignore_item(i) ==
  IF InRange(i)
  THEN <<[status EXCEPT ![i] = IGNORED], [backup EXCEPT ![i] = status[i]], TRUE>>
  ELSE <<status, backup, FALSE>>

\* a variant of unignore_item that keeps the backup
unignore_item_keep(i) ==
  IF InRange(i) /\ backup[i] # None
  THEN <<[status EXCEPT ![i] = backup[i]], backup, TRUE>>
  ELSE <<status, backup, FALSE>>

\* unignore_item: <<new status_list, new ignored_status_backup, returned value>>
unignore_item(i) ==
  IF InRange(i) /\ backup[i] # None
  THEN <<[status EXCEPT ![i] = backup[i]], [backup EXCEPT ![i] = None], TRUE>>
  ELSE <<status, backup, FALSE>>

(***************************************************************************)
(* Initial state: MusicUpgradeGUI.__init__ (main_window.py:37-69)          *)
(***************************************************************************)
NoMenu == [item |-> 0, cmds |-> {}]
\* no manual match window; `old` is history: TRUE when the last selection
\* in the window was made for an item whose file had been downloaded, until
\* the next menu or batch button event
NoWindow == [item |-> 0, pc |-> "closed", results |-> <<>>, old |-> FALSE]
IdleBatch == [pc |-> "idle", idx |-> 0]
FreeThread == [pc |-> "free", item |-> 0]
NoIgnore == [status |-> None, match |-> None, remote |-> FALSE]
NoCall == [pc |-> "idle", attempt |-> 0, wake |-> 0, valid |-> TRUE]
NoHist == [attempts |-> 0, waits |-> <<>>, outcome |-> "none"]
\* download_lossless_music not called: no tier requested, download_url and
\* song_info falsy (0), nothing fetched, no result yet
NoDownload ==
  [pc |-> "idle", variant |-> "sync", requested |-> <<>>, outs |-> <<>>,
   song_info |-> 0, download_url |-> 0, fetched |-> 0,
   result |-> "pending", error |-> FALSE, raised |-> FALSE]
NoFindBest == [search_results |-> <<>>, pc |-> "call", best |-> 0]
NoProgress == [match |-> <<>>, upgrade |-> <<>>]
\* a JSON value by its kind and, for a list or a map, its number of entries
EmptyList == [kind |-> "list", len |-> 0]
EmptyMap == [kind |-> "map", len |-> 0]
\* a path: its directory and its file name, a string of characters
NoPath == [dir |-> "none", name |-> <<>>]
NoFilePath ==
  [pc |-> "idle", url |-> <<>>,
   original |-> [parent |-> "none", name |-> <<>>], output_dir |-> None,
   download_file_path |-> NoPath]
\* no run of upgrade_music_files: no thread started, every download_result
\* still [None, None], no file counted
NoUpgradeFiles ==
  [pc |-> "idle", variant |-> "none", idx |-> 0,
   thread |-> [f \in 1..NumFiles |-> "none"],
   download_result |-> [f \in 1..NumFiles |-> None],
   counted |-> [f \in 1..NumFiles |-> "none"]]
NoResponse ==
  [pc |-> "idle", client |-> "none", method |-> "none",
   payload |-> EmptyList, result |-> EmptyList]

\* a worker thread has taken a step: the history notes it
WorkerRan ==
  ign' = [i \in Items |-> IF ign[i] = NoIgnore THEN NoIgnore
                          ELSE [ign[i] EXCEPT !.remote = TRUE]]

InitWidgets ==
  /\ is_matching = FALSE /\ cancel_matching = FALSE
  /\ is_upgrading = FALSE /\ cancel_upgrading = FALSE
  /\ matchBtn = TRUE /\ browseBtn = TRUE
  /\ menu = NoMenu /\ mw = NoWindow /\ afterQ = <<>>
  /\ mt = IdleBatch /\ ut = IdleBatch
  /\ sd = [s \in 1..MaxSingle |-> FreeThread]
  /\ rm = [s \in 1..MaxRematch |-> FreeThread]
  /\ ign = [i \in Items |-> NoIgnore]
  /\ now = 0 /\ requests = <<>> /\ issued = <<>>
  /\ calls = [c \in Callers |-> NoCall]
  /\ hist = [c \in Callers |-> NoHist]
  /\ dl = NoDownload
  /\ progress = NoProgress
  /\ resp = NoResponse
  /\ fp = NoFilePath
  /\ uf = NoUpgradeFiles

InitApp ==
  /\ n = 0 /\ scanned = FALSE
  /\ status = [i \in Items |-> MATCH_PENDING]
  /\ backup = [i \in Items |-> None]
  /\ matched_songs = [i \in Items |-> None]
  /\ original_matched_songs = [i \in Items |-> None]
  /\ origLen = 0
  /\ menuBound = FALSE /\ upgradeBtn = FALSE
  /\ InitWidgets

Init == InitApp /\ fb = NoFindBest

(***************************************************************************)
(* SpecMgr: MusicStateManager(NumItems) on its own.  Each caller asks the  *)
(* eligibility predicate first, as the predicates' docstrings prescribe.   *)
(***************************************************************************)
InitMgr ==
  /\ n = NumItems /\ scanned = TRUE
  /\ status = [i \in Items |-> MATCH_PENDING]
  /\ backup = [i \in Items |-> None]
  /\ matched_songs = [i \in Items |-> None]
  /\ original_matched_songs = [i \in Items |-> None]
  /\ origLen = 0
  /\ menuBound = TRUE /\ upgradeBtn = TRUE
  /\ InitWidgets
  /\ fb = NoFindBest

mgrRest ==
  <<n, scanned, matched_songs, original_matched_songs, origLen,
    is_matching, cancel_matching, is_upgrading, cancel_upgrading,
    menuBound, matchBtn, upgradeBtn, browseBtn, menu, mw, afterQ,
    mt, ut, sd, rm, ign>>

MgrAutoMatch(i) ==
  /\ UNCHANGED <<rlVars, fnVars>>
  /\ can_auto_match(i)
  /\ \E s \in {AUTO_MATCHED, MATCH_FAIL} : status' = set_status(status, i, s)
  /\ UNCHANGED <<backup, mgrRest>>

MgrManualMatch(i) ==
  /\ UNCHANGED <<rlVars, fnVars>>
  /\ can_manual_match(i)
  /\ status' = set_status(status, i, MANUAL_MATCHED)
  /\ UNCHANGED <<backup, mgrRest>>

MgrDownload(i) ==
  /\ UNCHANGED <<rlVars, fnVars>>
  /\ can_download(i)
  /\ \E s \in {AUTO_DOWNLOAD_COMPLETE, MANUAL_DOWNLOAD_COMPLETE, DOWNLOAD_FAIL} :
       status' = set_status(status, i, s)
  /\ UNCHANGED <<backup, mgrRest>>

MgrIgnore(i) ==
  /\ UNCHANGED <<rlVars, fnVars>>
  /\ can_ignore(i)
  /\ status' = ignore_item(i)[1]
  /\ backup' = ignore_item(i)[2]
  /\ UNCHANGED mgrRest

MgrUnignore(i) ==
  /\ UNCHANGED <<rlVars, fnVars>>
  /\ can_unignore(i)
  /\ status' = unignore_item(i)[1]
  /\ backup' = unignore_item(i)[2]
  /\ UNCHANGED mgrRest

NextMgr ==
  \E i \in Items :
    \/ MgrAutoMatch(i)
    \/ MgrManualMatch(i)
    \/ MgrDownload(i)
    \/ MgrIgnore(i)
    \/ MgrUnignore(i)

SpecMgr == InitMgr /\ [][NextMgr]_vars


(***************************************************************************)
(* Spec: the GUI application.  Main-thread handlers.                       *)
(***************************************************************************)
\* A user event is handled when no callback scheduled with root.after(0, ...)
\* is pending: the main loop runs those first.
UserEvent == afterQ = <<>>

\* the user can reach the main window: no modal window holds the grab
MainFree == UserEvent /\ mw.item = 0 /\ menu = NoMenu

\* worker threads alive: the two batches, the single-item workers and the
\* manual window's search
Workers ==
  (IF mt.pc = "idle" THEN 0 ELSE 1) + (IF ut.pc = "idle" THEN 0 ELSE 1)
  + Cardinality({s \in DOMAIN sd : sd[s].pc # "free"})
  + Cardinality({s \in DOMAIN rm : rm[s].pc # "free"})
  + (IF mw.pc = "searching" THEN 1 ELSE 0)

HasFree(f) == Workers < MaxWorkers /\ \E s \in DOMAIN f : f[s].pc = "free"
FreeSlot(f) == CHOOSE s \in DOMAIN f : f[s].pc = "free"

\* browse_directory -> auto_scan_files: the scan finds k files
auto_scan_files(k) ==
  /\ UNCHANGED <<rlVars, fnVars>>
  /\ browseBtn /\ MainFree
  /\ ~scanned          \* one scan per session
  /\ n' = k /\ scanned' = TRUE
  /\ matched_songs' = [i \in Items |-> None]
  /\ status' = [i \in Items |-> MATCH_PENDING]
  /\ backup' = [i \in Items |-> None]
  /\ upgradeBtn' = TRUE
  /\ menuBound' = TRUE
  /\ UNCHANGED <<original_matched_songs, origLen, is_matching, cancel_matching,
                 is_upgrading, cancel_upgrading, matchBtn, browseBtn, menu, mw,
                 afterQ, mt, ut, sd, rm, ign>>

\* start_matching: the match button either requests cancellation or starts MatchAll
start_matching ==
  /\ UNCHANGED <<rlVars, fnVars>>
  /\ matchBtn /\ MainFree
  /\ IF is_matching
     THEN /\ cancel_matching' = TRUE
          /\ UNCHANGED <<is_matching, upgradeBtn, menuBound, browseBtn,
                         original_matched_songs, origLen, mt>>
     ELSE /\ cancel_matching' = FALSE
          /\ is_matching' = TRUE
          /\ upgradeBtn' = FALSE
          \* disable_table_during_matching
          /\ menuBound' = FALSE
          /\ browseBtn' = FALSE
          /\ original_matched_songs' = [i \in Items |-> None]
          /\ origLen' = n
          /\ Workers < MaxWorkers
          /\ mt' = [pc |-> "iter", idx |-> 1]
  /\ mw' = NoWindow
  /\ UNCHANGED <<n, scanned, status, backup, matched_songs, is_upgrading,
                 cancel_upgrading, matchBtn, menu, afterQ, ut, sd, rm, ign>>

\* files start_upgrade counts as downloadable (main_window.py:369-375)
downloadable_count ==
  Cardinality({i \in 1..n :
     status[i] \in {AUTO_MATCHED, MANUAL_MATCHED, DOWNLOAD_FAIL}})

\* start_upgrade: the upgrade button either requests cancellation or starts
\* DownloadAll; `confirm` is the operator's answer to askyesno.  The click can
\* come while the thread of the previous DownloadAll, having reset
\* is_upgrading, has yet to schedule upgrade_complete (ut.pc = "post"): the
\* main loop then serves that thread's root.after call once this handler is
\* over, and ut becomes the new thread.  ut holds one running DownloadAll: a
\* start that would put a second one beside it is not followed.
start_upgrade(confirm) ==
  /\ UNCHANGED <<rlVars, fnVars>>
  /\ upgradeBtn /\ MainFree
  /\ IF is_upgrading
     THEN /\ cancel_upgrading' = TRUE
          /\ UNCHANGED <<is_upgrading, menuBound, browseBtn, matchBtn, ut,
                         afterQ>>
     ELSE /\ cancel_upgrading' = FALSE
          /\ is_upgrading' = TRUE
          /\ IF n = 0 \/ downloadable_count = 0 \/ ~confirm
             THEN UNCHANGED <<menuBound, browseBtn, matchBtn, ut, afterQ>>
             ELSE \* disable_controls_during_download
                  /\ menuBound' = FALSE
                  /\ browseBtn' = FALSE
                  /\ matchBtn' = FALSE
                  /\ ut.pc \in {"idle", "post"}
                  /\ Workers < MaxWorkers \/ ut.pc = "post"
                  /\ afterQ' = IF ut.pc = "post"
                               THEN Append(afterQ, "upgrade_complete")
                               ELSE afterQ
                  /\ ut' = [pc |-> "iter", idx |-> 1]
  /\ mw' = NoWindow
  /\ UNCHANGED <<n, scanned, status, backup, matched_songs,
                 original_matched_songs, origLen, is_matching, cancel_matching,
                 upgradeBtn, menu, mt, sd, rm, ign>>

\* enable_table_after_matching / enable_controls_after_download re-bind the
\* menu through self.context_menu_handler, which exists only after a scan:
\* before one the bind raises and the remaining widgets stay as they are
\* (each of the four callbacks has enabled the upgrade button by then).
AfterBatchWidgets ==
  /\ upgradeBtn' = TRUE
  /\ IF scanned
     THEN menuBound' = TRUE /\ browseBtn' = TRUE /\ matchBtn' = TRUE
     ELSE UNCHANGED <<menuBound, browseBtn, matchBtn>>

afterRest ==
  <<n, scanned, status, backup, matched_songs, original_matched_songs, origLen,
    menu, mw, mt, ut, sd, rm, ign>>

cancel_matching_process ==
  /\ UNCHANGED <<rlVars, fnVars>>
  /\ afterQ # <<>> /\ Head(afterQ) = "cancel_matching_process"
  /\ afterQ' = Tail(afterQ)
  /\ is_matching' = FALSE
  /\ cancel_matching' = FALSE
  /\ AfterBatchWidgets
  /\ UNCHANGED <<is_upgrading, cancel_upgrading, afterRest>>

matching_complete ==
  /\ UNCHANGED <<rlVars, fnVars>>
  /\ afterQ # <<>> /\ Head(afterQ) = "matching_complete"
  /\ afterQ' = Tail(afterQ)
  /\ is_matching' = FALSE
  /\ AfterBatchWidgets
  /\ UNCHANGED <<cancel_matching, is_upgrading, cancel_upgrading, afterRest>>

cancel_upgrading_process ==
  /\ UNCHANGED <<rlVars, fnVars>>
  /\ afterQ # <<>> /\ Head(afterQ) = "cancel_upgrading_process"
  /\ afterQ' = Tail(afterQ)
  /\ is_upgrading' = FALSE
  /\ cancel_upgrading' = FALSE
  /\ AfterBatchWidgets
  /\ UNCHANGED <<is_matching, cancel_matching, afterRest>>

upgrade_complete ==
  /\ UNCHANGED <<rlVars, fnVars>>
  /\ afterQ # <<>> /\ Head(afterQ) = "upgrade_complete"
  /\ afterQ' = Tail(afterQ)
  /\ is_upgrading' = FALSE
  /\ AfterBatchWidgets
  /\ UNCHANGED <<is_matching, cancel_matching, cancel_upgrading, afterRest>>

(***************************************************************************)
(* The context menu (context_menu.py)                                      *)
(***************************************************************************)
\* the commands show_context_menu puts on the menu of item i
MenuCommands(i) ==
  IF get_status(i) = IGNORED
  THEN {"unignore"}
  ELSE (IF can_ignore(i) THEN {"ignore"} ELSE {})
       \cup (IF can_manual_match(i) THEN {"manual"} ELSE {})
       \cup (IF can_download(i) THEN {"download"} ELSE {})

menuRest ==
  <<n, scanned, original_matched_songs, origLen, is_matching, cancel_matching,
    is_upgrading, cancel_upgrading, menuBound, matchBtn, upgradeBtn, browseBtn,
    afterQ, mt, ut>>

show_context_menu(i) ==
  /\ UNCHANGED <<rlVars, fnVars>>
  /\ menuBound /\ MainFree /\ InRange(i)
  /\ menu' = [item |-> i, cmds |-> MenuCommands(i)]
  /\ mw' = NoWindow
  /\ UNCHANGED <<status, backup, matched_songs, sd, rm, ign, menuRest>>

\* the posted menu is closed without a command
dismiss_menu ==
  /\ UNCHANGED <<rlVars, fnVars>>
  /\ UserEvent
  /\ menu # NoMenu
  /\ menu' = NoMenu
  /\ UNCHANGED <<status, backup, matched_songs, mw, sd, rm, ign, menuRest>>

Offered(i, cmd) == UserEvent /\ menu.item = i /\ cmd \in menu.cmds

\* ContextMenuHandler.ignore_item
ctx_ignore_item(i) ==
  /\ UNCHANGED <<rlVars, fnVars>>
  /\ Offered(i, "ignore")
  /\ menu' = NoMenu
  /\ matched_songs' = [matched_songs EXCEPT ![i] = IgnoredPh]
  /\ status' = ignore_item(i)[1]
  /\ backup' = ignore_item(i)[2]
  /\ ign' = [ign EXCEPT ![i] = [status |-> status[i], match |-> matched_songs[i],
                                 remote |-> FALSE]]
  /\ UNCHANGED <<mw, sd, rm, menuRest>>

\* ContextMenuHandler.unignore_item
ctx_unignore_item(i) ==
  /\ UNCHANGED <<rlVars, fnVars>>
  /\ Offered(i, "unignore")
  /\ menu' = NoMenu
  /\ status' = unignore_item(i)[1]
  /\ backup' = unignore_item(i)[2]
  /\ IF i <= origLen /\ original_matched_songs[i] # None
     THEN /\ matched_songs' = [matched_songs EXCEPT ![i] = original_matched_songs[i]]
          /\ UNCHANGED rm
     ELSE \* no original match: re-match the file on a new thread
          /\ HasFree(rm)
          /\ rm' = [rm EXCEPT ![FreeSlot(rm)] =
                      [pc |-> "start", item |-> i]]
          /\ UNCHANGED matched_songs
  /\ ign' = [ign EXCEPT ![i] = NoIgnore]
  /\ UNCHANGED <<mw, sd, menuRest>>

\* ContextMenuHandler.manual_match -> create_manual_match_window, which
\* starts the search for the file's name on its own thread
ctx_manual_match(i) ==
  /\ UNCHANGED <<rlVars, fnVars>>
  /\ Offered(i, "manual")
  /\ menu' = NoMenu
  /\ IF get_status(i) = IGNORED
     THEN UNCHANGED mw
     ELSE /\ Workers < MaxWorkers
          /\ mw' = [item |-> i, pc |-> "searching", results |-> <<>>,
                    old |-> FALSE]
  /\ UNCHANGED <<status, backup, matched_songs, sd, rm, ign, menuRest>>

\* ContextMenuHandler.download_single; `confirm` is the answer to askyesno
ctx_download_single(i, confirm) ==
  /\ UNCHANGED <<rlVars, fnVars>>
  /\ Offered(i, "download")
  /\ menu' = NoMenu
  /\ IF get_status(i) = IGNORED \/ ~HasId(matched_songs[i]) \/ ~confirm
     THEN UNCHANGED sd
     ELSE /\ HasFree(sd)
          /\ sd' = [sd EXCEPT ![FreeSlot(sd)] =
                      [pc |-> "start", item |-> i]]
  /\ UNCHANGED <<status, backup, matched_songs, mw, rm, ign, menuRest>>

(***************************************************************************)
(* Outcomes of the remote calls                                            *)
(***************************************************************************)
MaxResults == 2      \* length of a search result list

RAISE == "RAISE"
Raised == [raised |-> TRUE, results |-> <<>>]

\* what client.search returns: a list of distinct candidates, possibly empty
SearchResults ==
  {r \in UNION {[1..k -> Candidates] : k \in 0..MaxResults} :
     \A a, b \in DOMAIN r : a # b => r[a] # r[b]}

\* ... or the exception it raises once its retries are used up
SearchOutcomes ==
  {[raised |-> FALSE, results |-> r] : r \in SearchResults} \cup {Raised}

\* download_lossless_music_async: a path, None, or an exception
DownloadOutcomes == {"path", None, RAISE}

(***************************************************************************)
(* What match_files_async and _rematch_single_file_async do with a search  *)
(* outcome for item i.  `existing` is the match the worker read before the *)
(* search.  The result is the item's <<match, original match, status>>;    *)
(* KEEP leaves a field as it is.                                           *)
(***************************************************************************)
KEEP == "KEEP"

\* the except branch (downloader.py:281-312, context_menu.py:290-321);
\* `cur` is matched_songs[i] when the exception is caught
MatchExcept(i, cur) ==
  IF HasId(cur)
  THEN <<KEEP, KEEP, AUTO_MATCHED>>
  ELSE IF i <= origLen
       THEN <<FailedPh, FailedPh, MATCH_FAIL>>
       \* original_matched_songs[i] = ... raises IndexError inside the handler:
       \* the worker dies after it has written matched_songs[i]
       ELSE <<FailedPh, KEEP, KEEP>>

\* the try branch after the search (downloader.py:225-271,
\* context_menu.py:233-279)
MatchTry(i, existing, results) ==
  LET matched_song == IF results = <<>> THEN NotFoundPh ELSE results[1] IN
  IF HasId(matched_song) \/ ~HasId(existing)
  THEN \* writes matched_songs[i], then original_matched_songs[i]
       IF i <= origLen
       THEN <<matched_song, matched_song,
              IF HasId(matched_song) THEN AUTO_MATCHED ELSE MATCH_FAIL>>
       ELSE LET e == MatchExcept(i, matched_song) IN
            <<IF e[1] = KEEP THEN matched_song ELSE e[1], e[2], e[3]>>
  ELSE <<KEEP, KEEP, AUTO_MATCHED>>

\* The workers start a search only when the match they read carries no id,
\* and from then on use only whether it carries one: the model passes any
\* id-less value for it.
NoIdMatch == None

MatchOutcome(i, existing, outcome) ==
  IF outcome.raised
  THEN MatchExcept(i, matched_songs[i])
  ELSE MatchTry(i, existing, outcome.results)

\* writes a <<match, original match, status>> triple to item i
ApplyMatch(i, t) ==
  /\ matched_songs' =
       IF t[1] = KEEP THEN matched_songs ELSE [matched_songs EXCEPT ![i] = t[1]]
  /\ original_matched_songs' =
       IF t[2] = KEEP THEN original_matched_songs
       ELSE [original_matched_songs EXCEPT ![i] = t[2]]
  /\ status' = IF t[3] = KEEP THEN status ELSE set_status(status, i, t[3])

(***************************************************************************)
(* MatchAll: match_files_async (downloader.py:168-315)                     *)
(***************************************************************************)
workerRest ==
  <<n, scanned, origLen, is_matching, cancel_matching, cancel_upgrading,
    menuBound, matchBtn, upgradeBtn, browseBtn, menu, mw>>

\* a variant of progress_update that schedules nothing
progress_update_none(p, index) == p

\* app.root.after(0, lambda p=progress: app.progress_var.set(p)) for the item
\* at index, p the updates scheduled before
progress_update(p, index) == Append(p, index)

\* the head of one loop iteration, up to the search request
match_iter ==
  /\ UNCHANGED <<rlVars, dl, fb, fp, resp, uf>>
  /\ WorkerRan
  /\ mt.pc = "iter"
  /\ progress' = [progress EXCEPT !.match =
                    IF mt.idx > n \/ cancel_matching THEN <<>>
                    ELSE progress_update(@, mt.idx)]
  /\ IF mt.idx > n
     THEN \* all files processed
          /\ afterQ' = Append(afterQ, "matching_complete")
          /\ mt' = IdleBatch
          /\ UNCHANGED status
     ELSE IF cancel_matching
     THEN /\ afterQ' = Append(afterQ, "cancel_matching_process")
          /\ mt' = IdleBatch
          /\ UNCHANGED status
     ELSE IF get_status(mt.idx) = IGNORED
     THEN /\ mt' = [mt EXCEPT !.idx = @ + 1]
          /\ UNCHANGED <<afterQ, status>>
     ELSE IF HasId(matched_songs[mt.idx])
     THEN \* already matched: keep the match, set the status
          /\ status' = set_status(status, mt.idx, AUTO_MATCHED)
          /\ mt' = [mt EXCEPT !.idx = @ + 1]
          /\ UNCHANGED afterQ
     ELSE \* existing_match carries no id here
          /\ mt' = [mt EXCEPT !.pc = "search"]
          /\ UNCHANGED <<afterQ, status>>
  /\ UNCHANGED <<backup, matched_songs, original_matched_songs, is_upgrading,
                 ut, sd, rm, workerRest>>

\* the search returns (or raises) and the item is updated
match_search_done(outcome) ==
  /\ UNCHANGED <<rlVars, fnVars>>
  /\ WorkerRan
  /\ mt.pc = "search"
  /\ ApplyMatch(mt.idx, MatchOutcome(mt.idx, NoIdMatch, outcome))
  /\ mt' = [pc |-> "iter", idx |-> mt.idx + 1]
  /\ UNCHANGED <<backup, afterQ, is_upgrading, ut, sd, rm, workerRest>>

(***************************************************************************)
(* Single-item re-match: _rematch_single_file_async (context_menu.py)      *)
(***************************************************************************)
rematch_start(s) ==
  /\ UNCHANGED <<rlVars, fnVars>>
  /\ WorkerRan
  /\ rm[s].pc = "start"
  /\ LET i == rm[s].item IN
     IF get_status(i) = IGNORED
     THEN rm' = [rm EXCEPT ![s] = FreeThread] /\ UNCHANGED status
     ELSE IF HasId(matched_songs[i])
     THEN /\ status' = set_status(status, i, AUTO_MATCHED)
          /\ rm' = [rm EXCEPT ![s] = FreeThread]
     ELSE \* existing_match carries no id here
          /\ rm' = [rm EXCEPT ![s] = [pc |-> "search", item |-> i]]
          /\ UNCHANGED status
  /\ UNCHANGED <<backup, matched_songs, original_matched_songs, afterQ,
                 is_upgrading, mt, ut, sd, workerRest>>

rematch_search_done(s, outcome) ==
  /\ UNCHANGED <<rlVars, fnVars>>
  /\ WorkerRan
  /\ rm[s].pc = "search"
  /\ ApplyMatch(rm[s].item, MatchOutcome(rm[s].item, NoIdMatch, outcome))
  /\ rm' = [rm EXCEPT ![s] = FreeThread]
  /\ UNCHANGED <<backup, afterQ, is_upgrading, mt, ut, sd, workerRest>>

(***************************************************************************)
(* DownloadAll: upgrade_files_async (downloader.py:80-165)                 *)
(***************************************************************************)
upgradeRest ==
  <<n, scanned, backup, matched_songs, original_matched_songs, origLen,
    is_matching, cancel_matching, cancel_upgrading, menuBound, matchBtn,
    upgradeBtn, browseBtn, menu, mw, mt, sd, rm>>

\* a variant of upgrade_iter that never looks at the cancel flag
upgrade_iter_no_cancel ==
  /\ UNCHANGED <<rlVars, dl, fb, fp, resp, uf>>
  /\ WorkerRan
  /\ ut.pc = "iter"
  /\ progress' = [progress EXCEPT !.upgrade =
                    IF ut.idx > n THEN <<>> ELSE progress_update(@, ut.idx)]
  /\ IF ut.idx > n
     THEN /\ is_upgrading' = FALSE
          /\ ut' = [pc |-> "post", idx |-> 0]
          /\ UNCHANGED afterQ
     ELSE IF get_status(ut.idx) \in {AUTO_MATCHED, MANUAL_MATCHED}
             /\ HasId(matched_songs[ut.idx])
     THEN /\ ut' = [ut EXCEPT !.pc = "download"]
          /\ UNCHANGED <<afterQ, is_upgrading>>
     ELSE /\ ut' = [ut EXCEPT !.idx = @ + 1]
          /\ UNCHANGED <<afterQ, is_upgrading>>
  /\ UNCHANGED <<status, upgradeRest>>

\* the head of one loop iteration, up to the download
upgrade_iter ==
  /\ UNCHANGED <<rlVars, dl, fb, fp, resp, uf>>
  /\ WorkerRan
  /\ ut.pc = "iter"
  /\ progress' = [progress EXCEPT !.upgrade =
                    IF ut.idx > n \/ cancel_upgrading THEN <<>>
                    ELSE progress_update(@, ut.idx)]
  /\ IF ut.idx > n
     THEN \* all files processed: the flag is reset by this thread
          /\ is_upgrading' = FALSE
          /\ ut' = [pc |-> "post", idx |-> 0]
          /\ UNCHANGED afterQ
     ELSE IF cancel_upgrading
     THEN /\ afterQ' = Append(afterQ, "cancel_upgrading_process")
          /\ ut' = IdleBatch
          /\ UNCHANGED is_upgrading
     ELSE IF get_status(ut.idx) \in {AUTO_MATCHED, MANUAL_MATCHED}
             /\ HasId(matched_songs[ut.idx])
     THEN /\ ut' = [ut EXCEPT !.pc = "download"]
          /\ UNCHANGED <<afterQ, is_upgrading>>
     ELSE \* skipped, or counted as a failure: no status change
          /\ ut' = [ut EXCEPT !.idx = @ + 1]
          /\ UNCHANGED <<afterQ, is_upgrading>>
  /\ UNCHANGED <<status, upgradeRest>>

\* the download returns (or raises) and the item's status is set
upgrade_download_done(outcome) ==
  /\ UNCHANGED <<rlVars, fnVars>>
  /\ WorkerRan
  /\ ut.pc = "download"
  /\ status' = set_status(status, ut.idx,
                 IF outcome = "path" THEN AUTO_DOWNLOAD_COMPLETE ELSE DOWNLOAD_FAIL)
  /\ ut' = [pc |-> "iter", idx |-> ut.idx + 1]
  /\ UNCHANGED <<afterQ, is_upgrading, upgradeRest>>

\* the thread's last statement schedules upgrade_complete
upgrade_post ==
  /\ UNCHANGED <<rlVars, fnVars>>
  /\ WorkerRan
  /\ ut.pc = "post"
  /\ afterQ' = Append(afterQ, "upgrade_complete")
  /\ ut' = IdleBatch
  /\ UNCHANGED <<status, is_upgrading, upgradeRest>>

(***************************************************************************)
(* Single-item download: download_single_async (downloader.py:28-77)       *)
(***************************************************************************)
singleRest ==
  <<n, scanned, backup, matched_songs, original_matched_songs, origLen,
    is_matching, cancel_matching, is_upgrading, cancel_upgrading, menuBound,
    matchBtn, upgradeBtn, browseBtn, menu, mw, afterQ, mt, ut, rm>>

\* the thread reads the item's match and starts the download
single_start(s) ==
  /\ UNCHANGED <<rlVars, fnVars>>
  /\ WorkerRan
  /\ sd[s].pc = "start"
  /\ sd' = [sd EXCEPT ![s] =
              IF HasId(matched_songs[sd[s].item])
              THEN [@ EXCEPT !.pc = "download"]
              ELSE FreeThread]
  /\ UNCHANGED <<status, singleRest>>

\* the download returns (or raises)
single_download_done(s, outcome) ==
  /\ UNCHANGED <<rlVars, fnVars>>
  /\ WorkerRan
  /\ sd[s].pc = "download"
  /\ status' =
       IF outcome = "path"
       THEN set_status(status, sd[s].item, MANUAL_DOWNLOAD_COMPLETE)
       ELSE IF outcome = None
       THEN set_status(status, sd[s].item, DOWNLOAD_FAIL)
       ELSE status    \* the except branch only shows an error box
  /\ sd' = [sd EXCEPT ![s] = FreeThread]
  /\ UNCHANGED singleRest

(***************************************************************************)
(* The manual match window (manual_match_window.py)                        *)
(***************************************************************************)
windowRest ==
  <<n, scanned, backup, original_matched_songs, origLen, is_matching,
    cancel_matching, is_upgrading, cancel_upgrading, menuBound, matchBtn,
    upgradeBtn, browseBtn, menu, afterQ, mt, ut, sd, rm>>

\* _perform_search_async returns; _populate_search_results caches the list
populate_search_results(outcome) ==
  /\ UNCHANGED <<rlVars, fnVars>>
  /\ WorkerRan
  /\ mw.pc = "searching"
  /\ mw' = [mw EXCEPT !.pc = "ready",
                      !.results = IF outcome.raised THEN @ ELSE outcome.results]
  /\ UNCHANGED <<status, matched_songs, windowRest>>

\* the operator picks row k of the result table
select_match(k) ==
  /\ UNCHANGED <<rlVars, fnVars>>
  /\ UserEvent
  /\ mw.pc = "ready"
  /\ k \in 1..Len(mw.results)
  /\ matched_songs' = [matched_songs EXCEPT ![mw.item] = mw.results[k]]
  /\ status' = set_status(status, mw.item, MANUAL_MATCHED)
  /\ mw' = [NoWindow EXCEPT !.old =
              status[mw.item] \in {AUTO_DOWNLOAD_COMPLETE,
                                   MANUAL_DOWNLOAD_COMPLETE}]
  /\ UNCHANGED <<ign, windowRest>>

\* the cancel button
close_window ==
  /\ UNCHANGED <<rlVars, fnVars>>
  /\ UserEvent
  /\ mw.item # 0
  /\ mw' = NoWindow
  /\ UNCHANGED <<ign, status, matched_songs, windowRest>>

(***************************************************************************)
(* The GUI application                                                     *)
(***************************************************************************)
Next ==
  \/ \E k \in {0, NumInteractive} : auto_scan_files(k)
  \/ start_matching
  \/ \E c \in BOOLEAN : ut.pc # "post" /\ start_upgrade(c)
  \/ cancel_matching_process
  \/ matching_complete
  \/ cancel_upgrading_process
  \/ upgrade_complete
  \/ \E i \in Items : show_context_menu(i)
  \/ dismiss_menu
  \/ \E i \in Items : ctx_ignore_item(i)
  \/ \E i \in Items : ctx_unignore_item(i)
  \/ \E i \in Items : ctx_manual_match(i)
  \/ \E i \in Items, c \in BOOLEAN : ctx_download_single(i, c)
  \/ match_iter
  \/ \E o \in SearchOutcomes : match_search_done(o)
  \/ \E s \in DOMAIN rm : rematch_start(s)
  \/ \E s \in DOMAIN rm, o \in SearchOutcomes : rematch_search_done(s, o)
  \/ upgrade_iter
  \/ \E o \in DownloadOutcomes : upgrade_download_done(o)
  \/ upgrade_post
  \/ \E s \in DOMAIN sd : single_start(s)
  \/ \E s \in DOMAIN sd, o \in DownloadOutcomes : single_download_done(s, o)
  \/ \E o \in SearchOutcomes : populate_search_results(o)
  \/ \E k \in 1..MaxResults : select_match(k)
  \/ close_window

\* No click on the upgrade button falls between the last two statements of
\* a DownloadAll thread here (ut.pc = "post"); SpecOverlap has that click.
Spec == Init /\ [][Next]_vars

(***************************************************************************)
(* SpecBatch: a session over NumItems files in which the operator scans,   *)
(* runs MatchAll and DownloadAll, cancels them, ignores items and matches  *)
(* them by hand.  No single-item worker thread runs beside a batch here;   *)
(* Spec has those, over NumInteractive files.                              *)
(***************************************************************************)
NextBatch ==
  \/ auto_scan_files(NumItems)
  \/ start_matching
  \/ \E c \in BOOLEAN : ut.pc # "post" /\ start_upgrade(c)
  \/ cancel_matching_process
  \/ matching_complete
  \/ cancel_upgrading_process
  \/ upgrade_complete
  \/ \E i \in Items : show_context_menu(i)
  \/ dismiss_menu
  \/ \E i \in Items : ctx_ignore_item(i)
  \/ \E i \in Items : ctx_manual_match(i)
  \/ match_iter
  \/ \E o \in SearchOutcomes : match_search_done(o)
  \/ upgrade_iter
  \/ \E o \in DownloadOutcomes : upgrade_download_done(o)
  \/ upgrade_post
  \/ \E o \in SearchOutcomes : populate_search_results(o)
  \/ \E k \in 1..MaxResults : select_match(k)
  \/ close_window

SpecBatch == Init /\ [][NextBatch]_vars

(***************************************************************************)
(* SpecAutoFair: the session of SpecBatch without the manual match window. *)
(* The batch threads are scheduled and every remote call returns: each     *)
(* step of a batch thread that stays possible is taken.                    *)
(***************************************************************************)
NextAuto ==
  \/ auto_scan_files(NumItems)
  \/ start_matching
  \/ \E c \in BOOLEAN : ut.pc # "post" /\ start_upgrade(c)
  \/ cancel_matching_process
  \/ matching_complete
  \/ cancel_upgrading_process
  \/ upgrade_complete
  \/ \E i \in Items : show_context_menu(i)
  \/ dismiss_menu
  \/ \E i \in Items : ctx_ignore_item(i)
  \/ match_iter
  \/ \E o \in SearchOutcomes : match_search_done(o)
  \/ upgrade_iter
  \/ \E o \in DownloadOutcomes : upgrade_download_done(o)
  \/ upgrade_post

SpecAutoFair ==
  /\ Init /\ [][NextAuto]_vars
  /\ WF_vars(match_iter)
  /\ WF_vars(\E o \in SearchOutcomes : match_search_done(o))
  /\ WF_vars(upgrade_iter)
  /\ WF_vars(\E o \in DownloadOutcomes : upgrade_download_done(o))
  /\ WF_vars(upgrade_post)

(***************************************************************************)
(* SpecOverlap: the two batches and their buttons over NumInteractive      *)
(* files, the click on the upgrade button at any moment it is enabled.     *)
(***************************************************************************)
NextOverlap ==
  \/ auto_scan_files(NumInteractive)
  \/ start_matching
  \/ \E c \in BOOLEAN : start_upgrade(c)
  \/ cancel_matching_process
  \/ matching_complete
  \/ cancel_upgrading_process
  \/ upgrade_complete
  \/ match_iter
  \/ \E o \in SearchOutcomes : match_search_done(o)
  \/ upgrade_iter
  \/ \E o \in DownloadOutcomes : upgrade_download_done(o)
  \/ upgrade_post

SpecOverlap == Init /\ [][NextOverlap]_vars

(***************************************************************************)
(* The rate-limited API client.  RateLimitedGDAPIClient (music_upgrade.py) *)
(* and the two AsyncRateLimitedGDAPIClient classes carry the same          *)
(* _check_rate_limit and the same retry loop; nothing in them is locked.   *)
(* A caller is a thread inside _make_request.  Time advances by Tick, so   *)
(* a sleeping caller may wake late but never early.                        *)
(***************************************************************************)
RECURSIVE Evict(_, _)
\* while self.requests and self.requests[0] <= now - self.time_window: popleft()
Evict(q, t) ==
  IF q # <<>> /\ Head(q) <= t - time_window THEN Evict(Tail(q), t) ELSE q

\* the timestamps of q inside the window that trails time t
InWindow(q, t) == SelectSeq(q, LAMBDA x : x > t - time_window)

Tick ==
  /\ now < MaxTime
  /\ now' = now + 1
  /\ issued' = InWindow(issued, now + 1)
  /\ UNCHANGED <<requests, calls, hist, guiVars, fnVars>>

\* A call of search / get_song_url / get_album_art begins; `valid` tells
\* whether its source, quality and size are among the supported ones.
\* _make_request enters _check_rate_limit: evict, then either go on or
\* start to sleep until the oldest timestamp leaves the window
check_rate_limit(c, valid) ==
  /\ calls[c].pc = "idle"
  /\ now < MaxTime
  /\ LET q == Evict(requests, now)
         sleep_time == time_window - (now - Head(q))
     IN  /\ requests' = q
         /\ IF Len(q) >= max_requests /\ sleep_time > 0
            THEN calls' = [calls EXCEPT ![c] =
                   [pc |-> "sleeping", attempt |-> 0, wake |-> now + sleep_time,
                    valid |-> valid]]
            ELSE calls' = [calls EXCEPT ![c] =
                   [pc |-> "ready", attempt |-> 0, wake |-> 0, valid |-> valid]]
  /\ hist' = [hist EXCEPT ![c] = [NoHist EXCEPT !.outcome = "pending"]]
  /\ UNCHANGED <<now, issued, guiVars, fnVars>>

\* time.sleep(sleep_time) returns; evict once more; the length is not
\* looked at again
sleep_done(c) ==
  /\ calls[c].pc = "sleeping"
  /\ now >= calls[c].wake
  /\ requests' = Evict(requests, now)
  /\ calls' = [calls EXCEPT ![c].pc = "ready", ![c].wake = 0]
  /\ UNCHANGED <<now, issued, hist, guiVars, fnVars>>

\* a variant of record_request that appends the timestamp twice
record_request_twice(c) ==
  /\ calls[c].pc = "ready"
  /\ requests' = Append(Append(requests, now), now)
  /\ issued' = IF calls[c].valid THEN Append(issued, now) ELSE issued
  /\ calls' = [calls EXCEPT ![c].pc = "sent"]
  /\ hist' = [hist EXCEPT ![c].attempts = @ + 1]
  /\ UNCHANGED <<now, guiVars, fnVars>>

\* the head of the retry loop: self.requests.append(time.time()), then the
\* request is sent
record_request(c) ==
  /\ calls[c].pc = "ready"
  /\ requests' = Append(requests, now)
  \* an invalid call raises ValueError before session.get: nothing is sent
  /\ issued' = IF calls[c].valid THEN Append(issued, now) ELSE issued
  /\ calls' = [calls EXCEPT ![c].pc = "sent"]
  /\ hist' = [hist EXCEPT ![c].attempts = @ + 1]
  /\ UNCHANGED <<now, guiVars, fnVars>>

\* method(*args, **kwargs) returns: _make_request returns its result.
\* The method of GDAPIClient validates its arguments first and raises
\* ValueError for unsupported ones, so only a valid call can return.
method_returns(c) ==
  /\ calls[c].pc = "sent"
  /\ calls[c].valid
  /\ calls' = [calls EXCEPT ![c] = NoCall]
  /\ hist' = [hist EXCEPT ![c].outcome = "returned"]
  /\ UNCHANGED <<now, requests, issued, guiVars, fnVars>>

\* a variant of backoff that waits the same time before every retry
backoff_constant(attempt) == 1

\* time.sleep(2 ** attempt)
backoff(attempt) == 2 ^ attempt

\* a variant of method_raises that retries at once, without the sleep
method_raises_no_sleep(c) ==
  /\ calls[c].pc = "sent"
  /\ IF calls[c].attempt < retries
     THEN /\ calls' = [calls EXCEPT ![c].pc = "backoff",
                                    ![c].attempt = @ + 1,
                                    ![c].wake = now]
          /\ hist' = hist
     ELSE /\ calls' = [calls EXCEPT ![c] = NoCall]
          /\ hist' = [hist EXCEPT ![c].outcome = "raised"]
  /\ UNCHANGED <<now, requests, issued, guiVars, fnVars>>

\* method(*args, **kwargs) raises: back off 2 ** attempt and try again, or
\* re-raise after the last attempt
method_raises(c) ==
  /\ calls[c].pc = "sent"
  /\ IF calls[c].attempt < retries
     THEN /\ calls' = [calls EXCEPT ![c].pc = "backoff",
                                    ![c].attempt = @ + 1,
                                    ![c].wake = now + backoff(calls[c].attempt)]
          /\ hist' = [hist EXCEPT ![c].waits =
                                    Append(@, backoff(calls[c].attempt))]
     ELSE /\ calls' = [calls EXCEPT ![c] = NoCall]
          /\ hist' = [hist EXCEPT ![c].outcome = "raised"]
  /\ UNCHANGED <<now, requests, issued, guiVars, fnVars>>

\* time.sleep(2 ** attempt) returns: next iteration of the retry loop
backoff_done(c) ==
  /\ calls[c].pc = "backoff"
  /\ now >= calls[c].wake
  /\ calls' = [calls EXCEPT ![c].pc = "ready", ![c].wake = 0]
  /\ UNCHANGED <<now, requests, issued, hist, guiVars, fnVars>>

\* `async with AsyncRateLimitedGDAPIClient() as client:` in the GUI's
\* workers: the next requests go through a client made for them
new_client ==
  /\ calls[1].pc = "idle"
  /\ Len(issued) < MaxIssued
  /\ requests' = <<>>
  /\ UNCHANGED <<now, calls, issued, hist, guiVars, fnVars>>

\* SpecRL: one client, one caller after the other (music_upgrade.py, and an
\* asyncio client awaited by one task)
NextRL ==
  \/ Tick
  \/ \E v \in BOOLEAN : check_rate_limit(1, v)
  \/ sleep_done(1)
  \/ record_request(1)
  \/ method_returns(1)
  \/ method_raises(1)
  \/ backoff_done(1)

SpecRL == Init /\ [][NextRL]_vars

\* SpecRLValid: SpecRL for calls with supported arguments only, as search,
\* get_song_url, get_album_art, get_lyrics and search_album_tracks make them
\* through _make_request
NextRLValid ==
  \/ Tick
  \/ check_rate_limit(1, TRUE)
  \/ sleep_done(1)
  \/ record_request(1)
  \/ method_returns(1)
  \/ method_raises(1)
  \/ backoff_done(1)

SpecRLValid == Init /\ [][NextRLValid]_vars

\* SpecRLThreads: one client of music_upgrader_core_async.py, whose
\* search_async / get_song_url_async run _make_request on a thread each
NextRLThreads ==
  \/ Tick
  \/ \E c \in Callers, v \in BOOLEAN : check_rate_limit(c, v)
  \/ \E c \in Callers : sleep_done(c)
  \/ \E c \in Callers : record_request(c)
  \/ \E c \in Callers : method_returns(c)
  \/ \E c \in Callers : method_raises(c)
  \/ \E c \in Callers : backoff_done(c)

SpecRLThreads == Init /\ [][NextRLThreads]_vars

\* SpecSession: the requests of one GUI session whose attempts all succeed;
\* each item of a batch and each interactive search makes its own client
NextSession ==
  \/ Tick
  \/ new_client
  \/ check_rate_limit(1, TRUE)
  \/ sleep_done(1)
  \/ record_request(1)
  \/ method_returns(1)

SpecSession == Init /\ [][NextSession]_vars

(***************************************************************************)
(* The quality cascade: download_lossless_music (music_upgrade.py) and the *)
(* download_task of download_lossless_music_async                          *)
(* (music_upgrader_core_async.py).  Each client.get_song_url is one step,  *)
(* and so is the requests.get that fetches the file.  A URL is modelled by *)
(* the tier that returned it; 0 is Python's None or ''.                    *)
(***************************************************************************)
\* br=999, then br=740, then br=320
Tiers == <<999, 740, 320>>

Variants == {"sync", "threaded"}

\* what one get_song_url gives: a dict with a URL, a dict whose 'url' is
\* empty, a dict without 'url', or an exception
TierOutcomes == {"url", "empty", "nokey", RAISE}
FetchOutcomes == {"ok", RAISE}

\* a variant of tier_needed that requests every tier
tier_always(download_url) == TRUE

\* `if not download_url:` in front of the 740 and the 320 request
tier_needed(download_url) == download_url = 0

\* the inner `except Exception:` of one tier: the sync code sets
\* song_info = None (and download_url = None at the first tier), the
\* threaded code passes
tier_except(d) ==
  IF d.variant = "sync"
  THEN [d EXCEPT !.song_info = 0,
                 !.download_url = IF Len(d.requested) = 1 THEN 0 ELSE @]
  ELSE d

\* a variant of download_except that lets the exception reach the caller
download_reraise(d) == [d EXCEPT !.pc = "done", !.raised = TRUE]

\* the outer `except Exception as e:` the function returns None from; the
\* threaded code also hands the error to the callback
download_except(d) ==
  [d EXCEPT !.pc = "done", !.result = None,
            !.error = (d.variant = "threaded")]

\* after a tier: the next `if not download_url:` or, past the last tier,
\* return None without a URL and go on to fetch the file with one
after_tier(d) ==
  IF Len(d.requested) < Len(Tiers) /\ tier_needed(d.download_url)
  THEN d
  ELSE IF d.download_url = 0
       THEN [d EXCEPT !.pc = "done", !.result = None]
       ELSE [d EXCEPT !.pc = "fetch"]

download_lossless_music(v) ==
  /\ dl.pc = "idle"
  /\ dl' = [NoDownload EXCEPT !.pc = "tier", !.variant = v]
  /\ UNCHANGED <<fb, fp, resp, progress, uf, guiVars, rlVars>>

\* one tier: song_info = client.get_song_url(track_id, source, br);
\* download_url = song_info.get('url'), which the threaded code does only
\* `if song_info and 'url' in song_info`
get_song_url(outcome) ==
  /\ dl.pc = "tier"
  /\ LET br == Tiers[Len(dl.requested) + 1]
         d1 == [dl EXCEPT !.requested = Append(@, br),
                          !.outs = Append(@, outcome)]
         d2 == IF outcome = RAISE
               THEN tier_except(d1)
               ELSE [d1 EXCEPT !.song_info = br,
                               !.download_url =
                                  IF outcome = "url" THEN br
                                  ELSE IF outcome = "nokey"
                                          /\ d1.variant = "threaded"
                                       THEN @ ELSE 0]
     IN dl' = after_tier(d2)
  /\ UNCHANGED <<fb, fp, resp, progress, uf, guiVars, rlVars>>

\* requests.get(download_url, stream=True), raise_for_status, write the file
fetch_file(outcome) ==
  /\ dl.pc = "fetch"
  /\ LET d1 == [dl EXCEPT !.fetched = dl.download_url] IN
     dl' = IF outcome = RAISE
           THEN download_except(d1)
           ELSE [d1 EXCEPT !.pc = "done", !.result = "path"]
  /\ UNCHANGED <<fb, fp, resp, progress, uf, guiVars, rlVars>>

\* the caller has the result; the next download may start
download_returned ==
  /\ dl.pc = "done"
  /\ dl' = NoDownload
  /\ UNCHANGED <<fb, fp, resp, progress, uf, guiVars, rlVars>>

NextCascade ==
  \/ \E v \in Variants : download_lossless_music(v)
  \/ \E o \in TierOutcomes : get_song_url(o)
  \/ \E o \in FetchOutcomes : fetch_file(o)
  \/ download_returned

SpecCascade == Init /\ [][NextCascade]_vars

(***************************************************************************)
(* find_best_match (music_upgrade.py, music_upgrader_core_async.py).  A    *)
(* search result is modelled by its total_score, a whole number of steps   *)
(* of similarity.                                                          *)
(***************************************************************************)
MaxCandidates == 3   \* length of the list handed to find_best_match
MaxScore == 3        \* largest total_score

ScoreLists == UNION {[1..k -> 0..MaxScore] : k \in 0..MaxCandidates}

\* a variant of better that also lets an equal score replace the best match
better_or_equal(total_score, best_score) == total_score >= best_score

\* `if total_score > best_score:`
better(total_score, best_score) == total_score > best_score

\* the loop of find_best_match over results k..Len, holding the index of
\* best_match (0 is None) and best_score
RECURSIVE best_loop(_, _, _, _)
best_loop(scores, k, best_match, best_score) ==
  IF k > Len(scores)
  THEN best_match
  ELSE IF better(scores[k], best_score)
       THEN best_loop(scores, k + 1, k, scores[k])
       ELSE best_loop(scores, k + 1, best_match, best_score)

\* the index of the result find_best_match returns, 0 for None
find_best_match(scores) ==
  IF scores = <<>> THEN 0 ELSE best_loop(scores, 1, 0, -1)

InitFindBest ==
  /\ InitApp
  /\ fb \in {[NoFindBest EXCEPT !.search_results = r] : r \in ScoreLists}

find_best_match_call ==
  /\ fb.pc = "call"
  /\ fb' = [fb EXCEPT !.pc = "returned",
                      !.best = find_best_match(fb.search_results)]
  /\ UNCHANGED <<dl, fp, resp, progress, uf, guiVars, rlVars>>

NextFindBest == find_best_match_call

SpecFindBest == InitFindBest /\ [][NextFindBest]_vars

(***************************************************************************)
(* SpecNamed: find_best_match for the file "ARTIST - TITLE" on candidates  *)
(* with a name and an artist.  SequenceMatcher.ratio() is a number of      *)
(* 0..MaxScore, MaxScore standing for 1.0, the ratio of equal strings only.*)
(***************************************************************************)
Titles == {"TITLE", "OTHER"}
Artists == {"ARTIST", "X"}
NamedResults ==
  UNION {[1..k -> [name : Titles, artist : Artists]] : k \in 0..MaxCandidates}

\* original_song: the whole cleaned name, or its second part with match_artist
original_song(match_artist) ==
  IF match_artist THEN "TITLE" ELSE "ARTIST - TITLE"
\* original_artist: empty, or the first part of the name with match_artist
original_artist(match_artist) == IF match_artist THEN "ARTIST" ELSE ""

\* the ratios SequenceMatcher can give for the strings compared
SongRatios(match_artist) ==
  {r \in [Titles -> 0..MaxScore] :
     \A t \in Titles : r[t] = MaxScore <=> t = original_song(match_artist)}
ArtistRatios(match_artist) ==
  {r \in [Artists -> 0..MaxScore] :
     \A a \in Artists : r[a] = MaxScore <=> a = original_artist(match_artist)}

\* total_score = song_similarity + artist_similarity
total_score(result, match_artist, song_ratio, artist_ratio) ==
  song_ratio[result.name]
  + (IF match_artist /\ original_artist(match_artist) # ""
     THEN artist_ratio[result.artist] ELSE 0)

InitNamed ==
  /\ InitApp
  /\ fb \in {[search_results |-> r, pc |-> "call", best |-> 0,
               match_artist |-> m, song_ratio |-> sr, artist_ratio |-> ar] :
               r \in NamedResults, m \in BOOLEAN,
               sr \in SongRatios(TRUE) \cup SongRatios(FALSE),
               ar \in ArtistRatios(TRUE) \cup ArtistRatios(FALSE)}
  /\ fb.song_ratio \in SongRatios(fb.match_artist)
  /\ fb.artist_ratio \in ArtistRatios(fb.match_artist)

find_best_match_named ==
  /\ fb.pc = "call"
  /\ fb' = [fb EXCEPT
       !.pc = "returned",
       !.best = find_best_match(
                  [k \in 1..Len(fb.search_results) |->
                     total_score(fb.search_results[k], fb.match_artist,
                                 fb.song_ratio, fb.artist_ratio)])]
  /\ UNCHANGED <<dl, fp, resp, progress, uf, guiVars, rlVars>>

NextNamed == find_best_match_named

SpecNamed == InitNamed /\ [][NextNamed]_vars

(***************************************************************************)
(* SpecShape: one request of one of the four API clients, the service      *)
(* answering with a JSON value of any kind.                                *)
(***************************************************************************)
MaxPayload == 2      \* entries of a list or a map in a response

SyncClients == {"GDAPIClient", "RateLimitedGDAPIClient"}
AsyncClients == {"AsyncGDAPIClient", "AsyncRateLimitedGDAPIClient"}
Clients == SyncClients \cup AsyncClients
ListMethods == {"search", "search_album_tracks"}
MapMethods == {"get_song_url", "get_album_art", "get_lyrics"}
Payloads ==
  [kind : {"list", "map"}, len : 0..MaxPayload]
  \cup [kind : {"string", "number", "null"}, len : {0}]

\* the kind of value the method is declared to return, and its empty value
Expected(method) == IF method \in ListMethods THEN "list" ELSE "map"
Empty(method) == IF method \in ListMethods THEN EmptyList ELSE EmptyMap

\* what the method of the client returns for the payload response.json()
\* gave: the asyncio clients test isinstance, the others return the payload
client_return(client, method, payload) ==
  IF client \in AsyncClients
  THEN IF payload.kind = Expected(method) THEN payload ELSE Empty(method)
  ELSE payload

request(client, method, payload) ==
  /\ resp.pc = "idle"
  /\ resp' = [pc |-> "call", client |-> client, method |-> method,
              payload |-> payload, result |-> EmptyList]
  /\ UNCHANGED <<dl, fb, fp, progress, uf, guiVars, rlVars>>

client_returns ==
  /\ resp.pc = "call"
  /\ resp' = [resp EXCEPT
       !.pc = "returned",
       !.result = client_return(resp.client, resp.method, resp.payload)]
  /\ UNCHANGED <<dl, fb, fp, progress, uf, guiVars, rlVars>>

NextShape ==
  \/ \E c \in Clients, m \in ListMethods \cup MapMethods, p \in Payloads :
       request(c, m, p)
  \/ client_returns

SpecShape == Init /\ [][NextShape]_vars

(***************************************************************************)
(* SpecQuality: one call of get_song_url or download_song with a quality   *)
(* given or left out; the call either issues a request or raises           *)
(* ValueError before any request.                                          *)
(***************************************************************************)
SupportedBr == {128, 192, 320, 740, 999}
\* the br argument of a call: <<>> when left out, <<br>> when given
Omitted == <<>>
Brs == {Omitted} \cup {<<br>> : br \in SupportedBr \cup {0, 99}}
Sources == {"netease", "unsupported"}
supported_sources == {"netease"}
QualityMethods == {"get_song_url", "download_song"}

\* the default value of the br parameter in each signature
default_br(client, method) ==
  CASE client = "GDAPIClient" /\ method = "get_song_url" -> 99
    [] client = "GDAPIClient" /\ method = "download_song" -> 999
    [] client = "RateLimitedGDAPIClient" /\ method = "get_song_url" -> 999
    [] client = "RateLimitedGDAPIClient" /\ method = "download_song" -> 99
    [] client = "AsyncGDAPIClient" -> 99
    [] client = "AsyncRateLimitedGDAPIClient" -> 99

\* get_song_url with an explicit br: validation, then the request
get_song_url_validate(source, br) ==
  IF source \notin supported_sources THEN "ValueError"
  ELSE IF br \notin SupportedBr THEN "ValueError"
  ELSE "request"

\* download_song hands its br to get_song_url; get_song_url validates it
quality_call(client, method, source, br) ==
  get_song_url_validate(
    source, IF br = Omitted THEN default_br(client, method) ELSE br[1])

call_quality(client, method, source, br) ==
  /\ resp.pc = "idle"
  /\ resp' = [pc |-> "call", client |-> client, method |-> method,
              source |-> source, br |-> br, result |-> "none"]
  /\ UNCHANGED <<dl, fb, fp, progress, uf, guiVars, rlVars>>

quality_returns ==
  /\ resp.pc = "call"
  /\ resp' = [resp EXCEPT
       !.pc = "returned",
       !.result = quality_call(resp.client, resp.method, resp.source, resp.br)]
  /\ UNCHANGED <<dl, fb, fp, progress, uf, guiVars, rlVars>>

NextQuality ==
  \/ \E c \in Clients, m \in QualityMethods, src \in Sources, br \in Brs :
       call_quality(c, m, src, br)
  \/ quality_returns

SpecQuality == Init /\ [][NextQuality]_vars

(***************************************************************************)
(* SpecFiles: the loop of upgrade_music_files_async and of                 *)
(* upgrade_music_files (music_upgrader_core_async.py) over the files of a  *)
(* directory.  Each file's download runs on a thread of its own, which     *)
(* hands its result to download_callback; process_music_file joins a       *)
(* thread, reads download_result and returns whether the file succeeded.   *)
(***************************************************************************)
Files == 1..NumFiles
UpgradeVariants == {"upgrade_music_files_async", "upgrade_music_files"}

upgrade_music_files(variant) ==
  /\ uf.pc = "idle"
  /\ uf' = [uf EXCEPT !.pc = "file", !.variant = variant, !.idx = 1]
  /\ UNCHANGED <<dl, fb, fp, resp, progress, guiVars, rlVars>>

\* the loop goes to the next file, or ends with the completion callback
next_file(u) ==
  IF u.idx = NumFiles THEN [u EXCEPT !.pc = "complete"]
  ELSE [u EXCEPT !.pc = "file", !.idx = @ + 1]

\* process_music_file up to the start of the download: the search is joined
\* and either gives no usable match (return False) or a track id, for which
\* download_lossless_music_async starts its thread
process_music_file(found) ==
  /\ uf.pc = "file"
  /\ uf' = IF found
           THEN [uf EXCEPT !.pc = "join", !.thread[uf.idx] = "running"]
           ELSE next_file([uf EXCEPT !.counted[uf.idx] = "fail"])
  /\ UNCHANGED <<dl, fb, fp, resp, progress, guiVars, rlVars>>

\* the join after the download was started returns.  upgrade_music_files
\* joins download_thread; upgrade_music_files_async joins `thread`, the
\* search thread, which has ended already
joined(variant, thread) ==
  IF variant = "upgrade_music_files" THEN thread = "done" ELSE TRUE

thread_join ==
  /\ uf.pc = "join"
  /\ joined(uf.variant, uf.thread[uf.idx])
  /\ uf' = [uf EXCEPT !.pc = "read"]
  /\ UNCHANGED <<dl, fb, fp, resp, progress, guiVars, rlVars>>

\* if download_result[1]: return False; return download_result[0] is not None
process_result(download_result) ==
  IF download_result = "path" THEN "success" ELSE "fail"

read_download_result ==
  /\ uf.pc = "read"
  /\ uf' = next_file([uf EXCEPT !.counted[uf.idx] =
                        process_result(uf.download_result[uf.idx])])
  /\ UNCHANGED <<dl, fb, fp, resp, progress, guiVars, rlVars>>

\* download_task of file f ends and calls callback(result, error): the path
\* written, None for no link, or the exception
download_task(f, outcome) ==
  /\ uf.thread[f] = "running"
  /\ uf' = [uf EXCEPT !.thread[f] = "done", !.download_result[f] = outcome]
  /\ UNCHANGED <<dl, fb, fp, resp, progress, guiVars, rlVars>>

NextFiles ==
  \/ \E v \in UpgradeVariants : upgrade_music_files(v)
  \/ \E found \in BOOLEAN : process_music_file(found)
  \/ thread_join
  \/ read_download_result
  \/ \E f \in Files, outcome \in {"path", None, "error"} :
       download_task(f, outcome)

SpecFiles == Init /\ [][NextFiles]_vars

(***************************************************************************)
(* SpecPath: the path download_lossless_music writes to, for a resolved    *)
(* URL, an original file and an output directory setting.  A URL is the    *)
(* string that follows "scheme://host/"; "%2E" is one percent-encoded      *)
(* character.                                                              *)
(***************************************************************************)
MaxUrlLen == 7       \* characters of a resolved URL

UrlChars == {"B", ".", "/", "?", "%2E"}
Urls == UNION {[1..k -> UrlChars] : k \in 0..MaxUrlLen}
Originals ==
  [parent : {"music"},
   name : {<<"B", ".", "m", "p", "3">>, <<"B", ".", "b">>,
           <<"B", ".", "B", ".", "b">>, <<"B">>}]
OutputDirs == {None, "out"}

\* str.find and str.rfind, counting from 1, 0 when c is not in s
FirstIndex(s, c) ==
  IF \E i \in 1..Len(s) : s[i] = c
  THEN CHOOSE i \in 1..Len(s) : s[i] = c /\ \A j \in 1..(i - 1) : s[j] # c
  ELSE 0
LastIndex(s, c) ==
  IF \E i \in 1..Len(s) : s[i] = c
  THEN CHOOSE i \in 1..Len(s) : s[i] = c /\ \A j \in (i + 1)..Len(s) : s[j] # c
  ELSE 0

\* urlparse(download_url).path: from the "/" after the host up to the query
urlparse_path(url) ==
  LET q == FirstIndex(url, "?")
  IN <<"/">> \o (IF q = 0 THEN url ELSE SubSeq(url, 1, q - 1))

unquote(s) == [i \in 1..Len(s) |-> IF s[i] = "%2E" THEN "." ELSE s[i]]

\* the characters of p that belong to a component pathlib keeps: not a
\* separator and not a component that is a single dot
Kept(p) ==
  {i \in 1..Len(p) :
     /\ p[i] # "/"
     /\ ~(/\ p[i] = "."
          /\ (i = 1 \/ p[i - 1] = "/")
          /\ (i = Len(p) \/ p[i + 1] = "/"))}

\* Path(p).name: the last component
path_name(p) ==
  IF Kept(p) = {} THEN <<>>
  ELSE LET last == CHOOSE i \in Kept(p) : \A j \in Kept(p) : j <= i
           first == CHOOSE i \in 1..last :
                      /\ \A j \in i..last : p[j] # "/"
                      /\ (i = 1 \/ p[i - 1] = "/")
       IN SubSeq(p, first, last)

\* PurePath.suffix of a file name
suffix(name) ==
  LET i == LastIndex(name, ".")
  IN IF 1 < i /\ i < Len(name) THEN SubSeq(name, i, Len(name)) ELSE <<>>

\* PurePath.stem of a file name
stem(name) == SubSeq(name, 1, Len(name) - Len(suffix(name)))

lower(s) == [i \in 1..Len(s) |-> IF s[i] = "B" THEN "b" ELSE s[i]]

Fallback == <<".", "m", "p", "3">>

\* a variant of file_ext that accepts an extension of any length
file_ext_any_length(url) ==
  LET ext == lower(suffix(path_name(unquote(urlparse_path(url)))))
  IN IF ext = <<>> THEN Fallback ELSE ext

\* ext, as download_lossless_music computes it from download_url
file_ext(url) ==
  LET ext == lower(suffix(path_name(unquote(urlparse_path(url)))))
  IN IF ext = <<>> \/ Len(ext) > 5 THEN Fallback ELSE ext

\* download_file_path = output_path / f"{original_stem}{ext}"
download_file_path(url, original, output_dir) ==
  [dir |-> IF output_dir # None THEN output_dir ELSE original.parent,
   name |-> stem(original.name) \o file_ext(url)]

\* the path is built for one download
build_download_file_path(url, original, output_dir) ==
  /\ fp.pc = "idle"
  /\ fp' = [pc |-> "built", url |-> url, original |-> original,
            output_dir |-> output_dir,
            download_file_path |->
              download_file_path(url, original, output_dir)]
  /\ UNCHANGED <<dl, fb, resp, progress, uf, guiVars, rlVars>>

NextPath ==
  /\ fp.pc = "idle"
  /\ \E url \in Urls, original \in Originals, output_dir \in OutputDirs :
       build_download_file_path(url, original, output_dir)

SpecPath == Init /\ [][NextPath]_vars

(***************************************************************************)
(* Properties of the rate limiter                                          *)
(***************************************************************************)
\* first attempt of a call: let through by _check_rate_limit, not yet recorded
Admitted(c) == calls[c].pc = "ready" /\ calls[c].attempt = 0

FreeSlots == max_requests - Len(InWindow(requests, now))

\* C1: on one client, the recorded timestamps inside the trailing
\* time_window never number more than max_requests, retries included.
C1_WindowNeverExceeded ==
  Len(InWindow(requests, now)) <= max_requests

\* C2: two callers of one client are never both let through, each about to
\* record its timestamp, while fewer than two slots are free in the window.
C2_AtomicAdmission ==
  \A c1, c2 \in Callers :
    (c1 # c2 /\ Admitted(c1) /\ Admitted(c2)) => FreeSlots >= 2

\* C3: over a session, the requests sent to the service inside the trailing
\* time_window never number more than max_requests.
C3_SessionWindowNeverExceeded ==
  Len(issued) <= max_requests

\* the sleeps _make_request asks for before retries 1..k
Backoffs(k) == [j \in 1..k |-> 2 ^ (j - 1)]

\* C11: a call whose attempt succeeds after earlier attempts failed returns:
\* it made at most retries+1 attempts, one more than the sleeps it took
\* between them, and it is over (the caller is outside the call).
C11_SuccessWithinRetries ==
  \A c \in Callers :
    hist[c].outcome = "returned"
    => /\ hist[c].attempts \in 1..(retries + 1)
       /\ hist[c].waits = Backoffs(hist[c].attempts - 1)
       /\ calls[c].pc = "idle"

\* a call has failed on its first `retries` attempts and succeeded on the last
C11_Witness ==
  hist[1].outcome = "returned" /\ hist[1].attempts = retries + 1

C13_ValidationNeverRetried ==
  \A c \in Callers :
    (calls[c].pc # "idle" /\ ~calls[c].valid)
    => hist[c].attempts = 0 /\ hist[c].waits = <<>>

(***************************************************************************)
(* Properties of the quality cascade and of find_best_match                *)
(***************************************************************************)
\* the k-th tier gave a usable URL
Usable(k) == dl.outs[k] = "url"

\* C14: the tiers are requested in the order 999, 740, 320; a tier is
\* requested only if no earlier tier gave a usable URL; the file is fetched
\* from the URL of the first tier that gave one.
C14_CascadeOrder ==
  /\ Len(dl.requested) <= Len(Tiers)
  /\ \A k \in 1..Len(dl.requested) :
       /\ dl.requested[k] = Tiers[k]
       /\ \A j \in 1..(k - 1) : ~Usable(j)
  /\ dl.fetched # 0
     => \E k \in 1..Len(dl.requested) :
          /\ Usable(k)
          /\ \A j \in 1..(k - 1) : ~Usable(j)
          /\ dl.fetched = Tiers[k]

\* only the 320 tier resolved: three tiers were requested and the file was
\* fetched from the 320 URL
C14_Witness ==
  /\ dl.requested = Tiers
  /\ ~Usable(1) /\ ~Usable(2) /\ Usable(3)
  /\ dl.fetched = 320
  /\ dl.result = "path"

\* C15: a tier that raises is followed by the next tier; no exception
\* reaches the caller; when no tier gave a URL the result is None and no
\* file was fetched.
C15_CascadeSwallowsFailures ==
  /\ ~dl.raised
  /\ \A k \in 1..Len(dl.outs) :
       (dl.outs[k] = RAISE /\ k < Len(Tiers) /\ dl.pc # "tier")
       => Len(dl.requested) > k
  /\ (dl.pc = "done" /\ \A k \in 1..Len(dl.outs) : ~Usable(k))
     => dl.result = None /\ dl.fetched = 0
  /\ dl.pc = "done" => dl.result \in {"path", None}

\* the first two tiers raised, the third gave a URL, and fetching the file
\* raised: the caller is given None
C15_Witness ==
  /\ dl.pc = "done"
  /\ dl.outs = <<RAISE, RAISE, "url">>
  /\ dl.fetched = 320
  /\ dl.result = None

\* C16: find_best_match returns None for an empty list; for any other list
\* it returns a result whose score no other result exceeds, the earliest
\* such result.
C16_FindBestMaximalEarliest ==
  fb.pc = "returned"
  => LET r == fb.search_results IN
     IF r = <<>>
     THEN fb.best = 0
     ELSE /\ fb.best \in 1..Len(r)
          /\ \A j \in 1..Len(r) : r[j] <= r[fb.best]
          /\ \A j \in 1..(fb.best - 1) : r[j] < r[fb.best]

\* two results tie for the top score behind a lower one: the first of the
\* two is returned
C16_Witness ==
  /\ fb.pc = "returned"
  /\ Len(fb.search_results) = 3
  /\ fb.search_results[1] < fb.search_results[2]
  /\ fb.search_results[2] = fb.search_results[3]
  /\ fb.best = 2

\* DownloadAll reaches item ut.idx: the loop head runs for an item
Reached ==
  /\ ut.pc = "iter" /\ ut.idx <= n /\ ~cancel_upgrading
  /\ upgrade_iter

\* C18: DownloadAll starts a download for the item it reaches exactly when
\* the item is AutoMatched or ManualMatched; when the download is over the
\* item is AutoDownloaded if it gave a file and DownloadFailed if not.
C18_DownloadAllEligibility ==
  [][/\ Reached
        => (ut'.pc = "download"
            <=> status[ut.idx] \in {AUTO_MATCHED, MANUAL_MATCHED})
     /\ \A o \in DownloadOutcomes :
          upgrade_download_done(o)
          => status'[ut.idx] = IF o = "path" THEN AUTO_DOWNLOAD_COMPLETE
                               ELSE DOWNLOAD_FAIL]_vars

\* C19: DownloadAll starts a download for a DownloadFailed item it reaches
\* whose match carries an id, as the count the operator confirmed includes
\* the item.
C19_DownloadFailedRetried ==
  [][(/\ Reached
      /\ status[ut.idx] = DOWNLOAD_FAIL
      /\ HasId(matched_songs[ut.idx]))
     => ut'.pc = "download"]_vars

\* C20: a single-item download that has started ends with the item
\* ManualDownloaded if it gave a file and DownloadFailed if it gave none or
\* raised.
C20_SingleDownloadOutcome ==
  [][\A s \in 1..MaxSingle, o \in DownloadOutcomes :
       single_download_done(s, o)
       => status'[sd[s].item] = IF o = "path" THEN MANUAL_DOWNLOAD_COMPLETE
                                ELSE DOWNLOAD_FAIL]_vars

C22_CooperativeCancel ==
  [][/\ (match_iter /\ mt.idx <= n /\ cancel_matching)
        => /\ mt' = IdleBatch
           /\ afterQ' = Append(afterQ, "cancel_matching_process")
           /\ UNCHANGED <<status, matched_songs, original_matched_songs>>
     /\ (upgrade_iter /\ ut.idx <= n /\ cancel_upgrading)
        => /\ ut' = IdleBatch
           /\ afterQ' = Append(afterQ, "cancel_upgrading_process")
           /\ UNCHANGED <<status, matched_songs, original_matched_songs>>
     /\ (mt.pc = "search" /\ mt' # mt)
        => \E o \in SearchOutcomes : match_search_done(o)
     /\ (ut.pc = "download" /\ ut' # ut)
        => \E o \in DownloadOutcomes : upgrade_download_done(o)
     /\ (mt.pc = "idle" /\ mt' # mt) => start_matching
     /\ (ut.pc = "idle" /\ ut' # ut) => \E c \in BOOLEAN : start_upgrade(c)
    ]_vars

\* DownloadAll was cancelled after its first item: the item was downloaded,
\* the second one is untouched and the cleanup callback is pending
C22_Witness ==
  /\ afterQ = <<"cancel_upgrading_process">>
  /\ cancel_upgrading /\ ut = IdleBatch
  /\ status[1] = AUTO_DOWNLOAD_COMPLETE
  /\ status[2] \in {AUTO_MATCHED, MANUAL_MATCHED}

\* C23: a search that raises or finds nothing leaves its item MatchFailed,
\* a download that raises or gives no file leaves its item DownloadFailed,
\* and in both cases the batch goes on to the next item; an eligible item
\* the batch reaches without the cancel flag set is searched, respectively
\* downloaded.
C23_FailureDoesNotStopBatch ==
  [][/\ \A o \in SearchOutcomes :
          (match_search_done(o) /\ (o.raised \/ o.results = <<>>))
          => /\ status'[mt.idx] = MATCH_FAIL
             /\ mt' = [pc |-> "iter", idx |-> mt.idx + 1]
     /\ \A o \in {None, RAISE} :
          upgrade_download_done(o)
          => /\ status'[ut.idx] = DOWNLOAD_FAIL
             /\ ut' = [pc |-> "iter", idx |-> ut.idx + 1]
     /\ (/\ match_iter /\ mt.idx <= n /\ ~cancel_matching
         /\ status[mt.idx] # IGNORED /\ ~HasId(matched_songs[mt.idx]))
        => mt' = [pc |-> "search", idx |-> mt.idx]
     /\ (/\ upgrade_iter /\ ut.idx <= n /\ ~cancel_upgrading
         /\ status[ut.idx] \in {AUTO_MATCHED, MANUAL_MATCHED})
        => ut' = [pc |-> "download", idx |-> ut.idx]
    ]_vars

\* C24: when MatchAll reaches an item that is Ignored or holds a candidate
\* (a match with an id), it starts no search for it, goes on to the next
\* item and leaves every match as it is.
C24_MatchAllSkips ==
  [][(/\ match_iter /\ mt.idx <= n /\ ~cancel_matching
      /\ \/ status[mt.idx] = IGNORED
         \/ matched_songs[mt.idx] \in Candidates)
     => /\ mt' = [pc |-> "iter", idx |-> mt.idx + 1]
        /\ UNCHANGED <<matched_songs, original_matched_songs>>]_vars

\* MatchAll has passed item 1, which holds a candidate this batch did not
\* store (a batch records what it stores in original_matched_songs)
C24_Witness ==
  /\ mt = [pc |-> "iter", idx |-> 2]
  /\ matched_songs[1] \in Candidates
  /\ original_matched_songs[1] = None
  /\ status[1] = AUTO_MATCHED

\* a search that returned an empty list
EmptyResult == [raised |-> FALSE, results |-> <<>>]

\* C25: when a search made for an item comes back empty while the item is
\* Pending or MatchFailed, the item becomes MatchFailed and its match is the
\* id-less "not found" value; this for the searches of MatchAll and of the
\* single-item re-match.
C25_EmptySearchFails ==
  [][/\ (/\ match_search_done(EmptyResult)
         /\ status[mt.idx] \in {MATCH_PENDING, MATCH_FAIL})
        => /\ status'[mt.idx] = MATCH_FAIL
           /\ matched_songs'[mt.idx] = NotFoundPh
     /\ \A s \in DOMAIN rm :
          (/\ rematch_search_done(s, EmptyResult)
           /\ status[rm[s].item] \in {MATCH_PENDING, MATCH_FAIL})
          => /\ status'[rm[s].item] = MATCH_FAIL
             /\ matched_songs'[rm[s].item] = NotFoundPh]_vars

\* C26: at most one batch is executing: never is the thread of MatchAll
\* inside its loop while a thread of DownloadAll is inside its loop.
C26_OneBatchAtATime ==
  ~(mt.pc \in {"iter", "search"} /\ ut.pc \in {"iter", "download"})

\* the items 1..k in scan order
UpTo(k) == [j \in 1..k |-> j]

C28_CanDownload ==
  \A i \in Items :
    /\ can_download(i) <=> status[i] \in {AUTO_MATCHED, MANUAL_MATCHED}
    /\ (status[i] = IGNORED /\ backup[i] \in {AUTO_MATCHED, MANUAL_MATCHED})
       => ~can_download(i)

\* a matched item has been ignored
C28_Witness ==
  \E i \in Items :
    status[i] = IGNORED /\ backup[i] \in {AUTO_MATCHED, MANUAL_MATCHED}

\* C29: an Unignore of an item that holds a backup restores it, reports
\* success and leaves the item without a backup; an Unignore of an item
\* without a backup reports failure and changes neither the status nor the
\* backup, so that one Ignore is undone by one Unignore only.
C29_BackupConsumedOnce ==
  [][\A i \in Items :
       MgrUnignore(i)
       => IF backup[i] # None
          THEN /\ unignore_item(i)[3]
               /\ status'[i] = backup[i]
               /\ backup'[i] = None
          ELSE /\ ~unignore_item(i)[3]
               /\ UNCHANGED <<status, backup>>]_vars

\* an Unignore has consumed the backup of an item that is still Ignored, and
\* another item waits ignored with its backup
C29_Witness ==
  /\ status[1] = IGNORED /\ backup[1] = None
  /\ status[2] = IGNORED /\ backup[2] = MATCH_PENDING

\* C30: a method of a client whose response is a JSON value of another kind
\* than the one it is declared to return, returns the empty list, for the
\* two searches, or the empty map, for the three lookups.
C30_WrongShapeEmpty ==
  (resp.pc = "returned" /\ resp.payload.kind # Expected(resp.method))
  => resp.result = Empty(resp.method)

\* the decoded path p has an extension that starts at d: a dot, not the
\* first character of its component, followed up to the end of the last
\* component of p by at least one character, none a dot or a separator
ExtAt(p, d) ==
  /\ p[d] = "." /\ d > 1 /\ p[d - 1] # "/"
  /\ d < Len(p) /\ p[d + 1] \notin {".", "/"}
  /\ \A j \in (d + 1)..Len(p) :
       \/ p[j] \notin {".", "/"} /\ \A i \in d..j : p[i] # "/"
       \/ j \notin Kept(p) /\ \A i \in j..Len(p) : i \notin Kept(p)

\* the end of the extension that starts at d
ExtEnd(p, d) ==
  CHOOSE k \in d..Len(p) :
    /\ \A i \in d..k : p[i] # "/"
    /\ k = Len(p) \/ p[k + 1] = "/"

\* C31: the name of the downloaded file is the stem of the original file
\* followed by the extension the decoded path of the URL ends with, in lower
\* case, when that extension has at most 5 characters with its dot, and by
\* ".mp3" when the path has no such extension.
C31_DownloadFileName ==
  fp.pc = "built" =>
    LET p == unquote(urlparse_path(fp.url))
        name == fp.download_file_path.name
        st == stem(fp.original.name)
        Plausible == {SubSeq(p, d, ExtEnd(p, d)) :
                        d \in {c \in 1..Len(p) :
                                 ExtAt(p, c) /\ ExtEnd(p, c) - c + 1 <= 5}}
    IN /\ Len(name) > Len(st)
       /\ SubSeq(name, 1, Len(st)) = st
       /\ LET ext == SubSeq(name, Len(st) + 1, Len(name))
          IN IF Plausible # {}
             THEN \E e \in Plausible : ext = lower(e)
             ELSE ext = Fallback

\* a file was named after a URL whose extension, encoded and in upper case,
\* has 5 characters, and another would be after one that has 6
C31_Witness ==
  /\ fp.pc = "built"
  /\ fp.url = <<"B", "/", "B", "%2E", "B", "B", "B">>
  /\ fp.download_file_path.name = <<"B", ".", "B", ".", "b", "b", "b">>

\* C40: the path a download is written to is never the path of the
\* original file.
C40_NeverOverwritesOriginal ==
  fp.pc = "built" =>
    fp.download_file_path # [dir |-> fp.original.parent,
                             name |-> fp.original.name]

\* C32: find_best_match without match_artist, for the file "ARTIST - TITLE"
\* and a list in which an entry titled TITLE by another artist comes before
\* one titled TITLE by ARTIST, no other entry being as close to the name,
\* returns the later entry.
C32_DefaultPrefersArtist ==
  (fb.pc = "returned" /\ ~fb.match_artist)
  => \A i, j \in 1..Len(fb.search_results) :
       (/\ i < j
        /\ fb.search_results[i] = [name |-> "TITLE", artist |-> "X"]
        /\ fb.search_results[j] = [name |-> "TITLE", artist |-> "ARTIST"]
        /\ \A k \in 1..Len(fb.search_results) \ {i, j} :
             fb.song_ratio[fb.search_results[k].name] < fb.song_ratio["TITLE"])
       => fb.best = j

\* C33: get_song_url and download_song called without a quality use 999, a
\* supported quality, so the call passes validation and a request is issued.
C33_DefaultQualityAccepted ==
  (/\ resp.pc = "returned"
   /\ resp.br = Omitted
   /\ resp.source \in supported_sources)
  => resp.result = "request"

\* C34: whenever a request timestamp is recorded, every timestamp then held
\* is newer than now - time_window; a request recorded when more than
\* time_window has passed since all earlier ones leaves one timestamp.
C34_RecordedWindowFresh ==
  [][\A c \in Callers :
       record_request(c)
       => /\ \A k \in 1..Len(requests') : requests'[k] > now - time_window
          /\ (\A k \in 1..Len(requests) : now - requests[k] > time_window)
             => Len(requests') = 1]_vars

C36_CountedAfterDownload ==
  \A f \in Files :
    (/\ uf.variant = "upgrade_music_files_async"
     /\ uf.counted[f] # "none"
     /\ uf.thread[f] # "none")
    => /\ uf.thread[f] = "done"
       /\ uf.download_result[f] = "path" => uf.counted[f] = "success"

\* C37: in every state an item whose status is AutoMatched or ManualMatched
\* holds a match that carries an id.
C37_MatchedHasId ==
  \A i \in Items :
    (InRange(i) /\ status[i] \in {AUTO_MATCHED, MANUAL_MATCHED})
    => HasId(matched_songs[i])

\* C38: in every state of the status manager an item has a backup exactly
\* when its status is Ignored, and the status backed up is never Ignored.
C38_BackupIffIgnored ==
  \A i \in Items :
    InRange(i)
    => /\ backup[i] # None <=> status[i] = IGNORED
       /\ backup[i] # IGNORED

\* C39: when start_upgrade, clicked while no download batch is marked as
\* running, returns without starting a batch (no file, nothing to download,
\* or the operator declined), is_upgrading is false afterwards.
C39_FlagOnlyWhileBatchRuns ==
  [][\A confirm \in BOOLEAN :
       (/\ start_upgrade(confirm)
        /\ ~is_upgrading
        /\ ut' = ut)
       => ~is_upgrading']_vars

\* find_best_match on a list of candidates whose total_score is sim[c]:
\* the candidate returned, None for an empty list
FindBest(results, sim) ==
  LET k == find_best_match([j \in 1..Len(results) |-> sim[results[j]]]) IN
  IF k = 0 THEN None ELSE results[k]

\* C17: when the batch match stores a candidate of the search results for
\* an item, it is the candidate find_best_match returns for those results,
\* whatever the candidates' scores are.
C17_MatchAllStoresFindBest ==
  [][\A r \in SearchResults :
       (/\ r # <<>>
        /\ match_search_done([raised |-> FALSE, results |-> r])
        /\ \E j \in 1..Len(r) : matched_songs'[mt.idx] = r[j])
       => \A sim \in [Candidates -> 0..MaxScore] :
            matched_songs'[mt.idx] = FindBest(r, sim)]_vars

(***************************************************************************)
(* Properties of the item state machine                                    *)
(***************************************************************************)
Downloaded == {AUTO_DOWNLOAD_COMPLETE, MANUAL_DOWNLOAD_COMPLETE}

\* a step of an automatic match: one item of match_files_async, or one
\* _rematch_single_file_async thread
AutoMatchStep ==
  \/ match_iter
  \/ \E o \in SearchOutcomes : match_search_done(o)
  \/ \E s \in DOMAIN rm : rematch_start(s)
  \/ \E s \in DOMAIN rm, o \in SearchOutcomes : rematch_search_done(s, o)

\* a step in which a match or a download started earlier completes
CompletionStep ==
  \/ AutoMatchStep
  \/ upgrade_iter
  \/ \E o \in DownloadOutcomes : upgrade_download_done(o)
  \/ upgrade_post
  \/ \E s \in DOMAIN sd : single_start(s)
  \/ \E s \in DOMAIN sd, o \in DownloadOutcomes : single_download_done(s, o)

\* the worker operations that are in flight on item i
InFlight(i) ==
  (IF mt.pc = "search" /\ mt.idx = i THEN {<<"match_all", 0>>} ELSE {})
  \cup (IF ut.pc = "download" /\ ut.idx = i THEN {<<"download_all", 0>>} ELSE {})
  \cup {<<"download_single", s>> : s \in {t \in DOMAIN sd :
                                   sd[t].pc # "free" /\ sd[t].item = i}}
  \cup {<<"rematch", s>> : s \in {t \in DOMAIN rm :
                           rm[t].pc # "free" /\ rm[t].item = i}}

\* C4: Ignore followed by Unignore, with no worker step in between, restores
\* both the status and the match result the item had before the Ignore.
C4_IgnoreUnignoreRoundTrip ==
  [][\A i \in Items :
       (ctx_unignore_item(i) /\ ign[i] # NoIgnore /\ ~ign[i].remote)
       => /\ status'[i] = ign[i].status
          /\ matched_songs'[i] = ign[i].match]_vars

\* C5: Ignore on an item whose status is AutoDownloaded or ManualDownloaded
\* is rejected: the handler changes neither its status nor its match.
C5_IgnoreRejectedOnDownloaded ==
  [][\A i \in Items :
       (ctx_ignore_item(i) /\ status[i] \in Downloaded)
       => /\ status'[i] = status[i]
          /\ backup'[i] = backup[i]
          /\ matched_songs'[i] = matched_songs[i]]_vars

\* C6: Unignore on an item whose status is Ignored always moves it to a
\* status other than Ignored, whatever sequence of Ignore calls came before.
C6_UnignoreLeavesIgnored ==
  [][\A i \in Items : MgrUnignore(i) => status'[i] # IGNORED]_vars

\* C7: a step of MatchAll or of a single re-match leaves the status of an
\* item that is ManualMatched, DownloadFailed or *Downloaded as it was.
C7_AutoMatchOnlyFromPendingOrFailed ==
  [][\A i \in Items :
       (AutoMatchStep /\ status[i] \in {MANUAL_MATCHED, DOWNLOAD_FAIL}
                                       \cup Downloaded)
       => status'[i] = status[i]]_vars

\* C8: a match that carries a song id is never replaced by a placeholder
\* without an id when an automatic match (MatchAll or re-match) completes.
C8_FailureNeverClobbersSuccess ==
  [][\A i \in Items :
       (AutoMatchStep /\ HasId(matched_songs[i]))
       => HasId(matched_songs'[i])]_vars

\* C9: at most one worker operation is in flight on any item at a time.
C9_PerItemMutualExclusion ==
  \A i \in Items : Cardinality(InFlight(i)) <= 1

\* C10: while an item is Ignored, no completing match or download changes
\* its status or its match result.
C10_IgnoredUntouchedByCompletions ==
  [][\A i \in Items :
       (CompletionStep /\ status[i] = IGNORED)
       => /\ status'[i] = IGNORED
          /\ matched_songs'[i] = matched_songs[i]]_vars


=============================================================================
